---- MODULE Spec2Model ----
(***************************************************************************)
(* Model of src/freeapi.py: fetch_data_from_api() issues one GET, checks   *)
(* the status, parses the body as JSON, validates the envelope and reads   *)
(* two fields of the first record; main() calls it once inside a           *)
(* try/except with three handlers and prints one line.                     *)
(*                                                                         *)
(* JSON values are tagged records, Python exceptions are records           *)
(* [cls, msg], and the class hierarchy used by the except clauses is the   *)
(* one of Python's builtins and of the requests library.                   *)
(***************************************************************************)
EXTENDS Integers, Sequences, FiniteSets, TLC

\* Longest data.data list the environment sends.
MaxRecords == 2
\* The same for the runs checked under fairness.
MaxFairRecords == 1

-----------------------------------------------------------------------------
(* JSON values as produced by response.json() *)

JNull == [t |-> "null"]
JBool(b) == [t |-> "bool", b |-> b]
JNum(n) == [t |-> "num", n |-> n]
JStr(s) == [t |-> "str", s |-> s]
JList(q) == [t |-> "list", elems |-> q]
JDict(f) == [t |-> "dict", items |-> f]

\* Python truth value testing, as applied by `if data["success"] and ...`.
Truthy(v) ==
    CASE v.t = "null" -> FALSE
      [] v.t = "bool" -> v.b
      [] v.t = "num"  -> v.n # 0
      [] v.t = "str"  -> v.s # ""
      [] v.t = "list" -> Len(v.elems) > 0
      [] v.t = "dict" -> DOMAIN v.items # {}

\* str(v) as used by the f-string of main.
PyStr(v) ==
    CASE v.t = "str"  -> v.s
      [] v.t = "null" -> "None"
      [] v.t = "bool" -> IF v.b THEN "True" ELSE "False"
      [] OTHER        -> "<object>"

-----------------------------------------------------------------------------
(* Exceptions and the class hierarchy the except clauses test against *)

Exc(c, m) == [cls |-> c, msg |-> m]

\* Direct base classes.  requests.JSONDecodeError (requests >= 2.27) derives
\* from InvalidJSONError, a RequestException, and from json.JSONDecodeError.
Bases(c) ==
    CASE c = "ConnectionError"          -> {"RequestException"}
      [] c = "Timeout"                  -> {"RequestException"}
      [] c = "HTTPError"                -> {"RequestException"}
      [] c = "InvalidJSONError"         -> {"RequestException"}
      [] c = "requests.JSONDecodeError" -> {"InvalidJSONError", "json.JSONDecodeError"}
      [] c = "json.JSONDecodeError"     -> {"ValueError"}
      [] c = "RequestException"         -> {"OSError"}
      [] c = "OSError"                  -> {"Exception"}
      [] c = "ValueError"               -> {"Exception"}
      [] c = "KeyError"                 -> {"LookupError"}
      [] c = "IndexError"               -> {"LookupError"}
      [] c = "LookupError"              -> {"Exception"}
      [] c = "TypeError"                -> {"Exception"}
      [] c = "Exception"                -> {"BaseException"}
      [] OTHER                          -> {}

RECURSIVE Ancestors(_)
Ancestors(c) == {c} \cup UNION {Ancestors(b) : b \in Bases(c)}

IsInstance(e, c) == c \in Ancestors(e.cls)

\* repr() of a string key, which is what str(KeyError(key)) shows.
Repr(k) == "'" \o k \o "'"

Ok(v) == [ok |-> TRUE, val |-> v]
Raise(e) == [ok |-> FALSE, exc |-> e]

\* obj[key] for a string key.
GetItem(obj, key) ==
    CASE obj.t = "dict" ->
            IF key \in DOMAIN obj.items THEN Ok(obj.items[key])
            ELSE Raise(Exc("KeyError", Repr(key)))
      [] obj.t = "list" ->
            Raise(Exc("TypeError", "list indices must be integers or slices, not str"))
      [] obj.t = "str" ->
            Raise(Exc("TypeError", "string indices must be integers"))
      [] OTHER ->
            Raise(Exc("TypeError", "object is not subscriptable"))

\* Variant: obj[-1], the last element instead of the first.
GetLast(obj) ==
    CASE obj.t = "list" ->
            IF Len(obj.elems) >= 1 THEN Ok(obj.elems[Len(obj.elems)])
            ELSE Raise(Exc("IndexError", "list index out of range"))
      [] obj.t = "dict" ->
            Raise(Exc("KeyError", "-1"))
      [] OTHER ->
            Raise(Exc("TypeError", "object is not subscriptable"))

\* obj[0].
GetFirst(obj) ==
    CASE obj.t = "list" ->
            IF Len(obj.elems) >= 1 THEN Ok(obj.elems[1])
            ELSE Raise(Exc("IndexError", "list index out of range"))
      [] obj.t = "dict" ->
            Raise(Exc("KeyError", "0"))
      [] OTHER ->
            Raise(Exc("TypeError", "object is not subscriptable"))

\* key in obj, for a string key.
Contains(key, obj) ==
    CASE obj.t = "dict" -> Ok(key \in DOMAIN obj.items)
      [] obj.t = "list" -> Ok(\E i \in 1..Len(obj.elems) : obj.elems[i] = JStr(key))
      [] OTHER -> Raise(Exc("TypeError", "argument is not iterable"))

\* Chains two lookups: the second is evaluated only if the first succeeded.
Then(r, F(_)) == IF r.ok THEN F(r.val) ELSE r

-----------------------------------------------------------------------------
(* What the environment can answer to the GET *)

Unbound == [t |-> "unbound"]
Absent == [t |-> "absent"]
NoExc == Exc("none", "")
None == <<>>

Usernames == {"jdoe", "asmith"}
Cities == {"Paris", "Oslo"}
StatusCodes == {101, 200, 299, 304, 404, 503}

\* A dict holding the pairs whose value is present.
MkDict(pairs) ==
    LET present == {p \in pairs : p[2] # Absent}
    IN  JDict([k \in {p[1] : p \in present} |->
                 (CHOOSE p \in present : p[1] = k)[2]])

Logins == {Absent, MkDict({})} \cup {MkDict({<<"username", JStr(n)>>}) : n \in Usernames}
Locations == {Absent, MkDict({})} \cup {MkDict({<<"city", JStr(c)>>}) : c \in Cities}
UserRecords == {MkDict({<<"login", l>>, <<"location", c>>}) : l \in Logins, c \in Locations}
RecordLists(max) == UNION {[1..n -> UserRecords] : n \in 0..max}
Payloads(max) == {Absent, JNull, MkDict({})}
                   \cup {MkDict({<<"data", JList(q)>>}) : q \in RecordLists(max)}
SuccessValues == {Absent, JNull, JBool(TRUE), JBool(FALSE), JNum(0), JNum(1)}
Envelopes(max) ==
    {MkDict({<<"success", s>>, <<"data", d>>}) : s \in SuccessValues, d \in Payloads(max)}

\* A body is either text that json() parses to a value, or text it rejects.
Bodies(max) ==
    {[wellformed |-> FALSE, value |-> JNull]}
      \cup {[wellformed |-> TRUE, value |-> v] : v \in Envelopes(max) \cup {JNull}}
Responses(max) == [status_code : StatusCodes, body : Bodies(max)]

\* requests.get(url): a Response, or a ConnectionError / Timeout.
TransportOutcomes(max) ==
    {Ok(r) : r \in Responses(max)}
      \cup {Raise(Exc("ConnectionError", "Connection refused")),
            Raise(Exc("Timeout", "Read timed out"))}

\* What response.json() raises on a body that is not JSON: the requests
\* exception (requests >= 2.27) or the plain json one (older releases).
JSONDecodeErrors == {Exc("requests.JSONDecodeError", "Expecting value"),
                     Exc("json.JSONDecodeError", "Expecting value")}

-----------------------------------------------------------------------------
(* fetch_data_from_api, line by line *)

\* Variant: only server errors raise.
raise_for_status_5xx(r) ==
    IF r.status_code >= 500 /\ r.status_code < 600
      THEN Raise(Exc("HTTPError", "Server Error"))
    ELSE Ok(r)

\* response.raise_for_status(): HTTPError for 4xx and 5xx, nothing otherwise.
raise_for_status(r) ==
    IF r.status_code >= 400 /\ r.status_code < 500
      THEN Raise(Exc("HTTPError", "Client Error"))
    ELSE IF r.status_code >= 500 /\ r.status_code < 600
      THEN Raise(Exc("HTTPError", "Server Error"))
    ELSE Ok(r)

InvalidData == "API request failed or returned invalid data"

\* Variant: "success" in data and "data" in data and "data" in data["data"]
EnvelopeValidKeyOnly(d) ==
    LET s == Contains("success", d) IN
    IF ~s.ok THEN s
    ELSE IF ~s.val THEN Ok(FALSE)
    ELSE LET c == Contains("data", d) IN
         IF ~c.ok THEN c
         ELSE IF ~c.val THEN Ok(FALSE)
         ELSE Then(GetItem(d, "data"), LAMBDA dd : Contains("data", dd))

\* Variant: data["success"] and "data" in data
EnvelopeValidNoNested(d) ==
    LET s == GetItem(d, "success") IN
    IF ~s.ok THEN s
    ELSE IF ~Truthy(s.val) THEN Ok(FALSE)
    ELSE Contains("data", d)

\* data["success"] and "data" in data and "data" in data["data"]
EnvelopeValid(d) ==
    LET s == GetItem(d, "success") IN
    IF ~s.ok THEN s
    ELSE IF ~Truthy(s.val) THEN Ok(FALSE)
    ELSE LET c == Contains("data", d) IN
         IF ~c.ok THEN c
         ELSE IF ~c.val THEN Ok(FALSE)
         ELSE Then(GetItem(d, "data"), LAMBDA dd : Contains("data", dd))

\* data["data"]["data"][0]
FirstRecord(d) ==
    Then(Then(GetItem(d, "data"), LAMBDA dd : GetItem(dd, "data")),
         LAMBDA l : GetFirst(l))

\* dict.get(key, default)
GetOr(obj, key, default) ==
    IF obj.t = "dict" /\ key \in DOMAIN obj.items THEN obj.items[key] ELSE default

\* Variant: user_data.get("login", {}).get("username")
ReadUsernameGet(ud) == Ok(GetOr(GetOr(ud, "login", JNull), "username", JNull))

\* Variant: user_data.get("location", {}).get("city")
ReadCityGet(ud) == Ok(GetOr(GetOr(ud, "location", JNull), "city", JNull))

\* user_data["login"]["username"]
ReadUsername(ud) == Then(GetItem(ud, "login"), LAMBDA l : GetItem(l, "username"))

\* user_data["location"]["city"]
ReadCity(ud) == Then(GetItem(ud, "location"), LAMBDA l : GetItem(l, "city"))

\* Variant: the second clause is `except LookupError`.
HandlerLookupError(e) ==
    IF IsInstance(e, "RequestException") THEN "Network error occurred: "
    ELSE IF IsInstance(e, "LookupError") THEN "Error parsing API response: "
    ELSE IF IsInstance(e, "Exception") THEN "An unexpected error occurred: "
    ELSE "uncaught"

\* Variant: the second clause is `except (KeyError, ValueError)`.
HandlerValueError(e) ==
    IF IsInstance(e, "RequestException") THEN "Network error occurred: "
    ELSE IF IsInstance(e, "KeyError") \/ IsInstance(e, "ValueError")
      THEN "Error parsing API response: "
    ELSE IF IsInstance(e, "Exception") THEN "An unexpected error occurred: "
    ELSE "uncaught"

\* Variant: the last clause is `except ValueError`, no catch-all.
HandlerNoCatchAll(e) ==
    IF IsInstance(e, "RequestException") THEN "Network error occurred: "
    ELSE IF IsInstance(e, "KeyError") THEN "Error parsing API response: "
    ELSE IF IsInstance(e, "ValueError") THEN "An unexpected error occurred: "
    ELSE "uncaught"

\* The except clauses of main, in order; the prefix of the line printed.
Handler(e) ==
    IF IsInstance(e, "RequestException") THEN "Network error occurred: "
    ELSE IF IsInstance(e, "KeyError") THEN "Error parsing API response: "
    ELSE IF IsInstance(e, "Exception") THEN "An unexpected error occurred: "
    ELSE "uncaught"

VARIABLES pc, calls, response, data, user_data, username, location,
          result, exc, out, escaped

vars == <<pc, calls, response, data, user_data, username, location,
          result, exc, out, escaped>>

Init ==
    /\ pc = "main"
    /\ calls = 0
    /\ response = Unbound
    /\ data = Unbound
    /\ user_data = Unbound
    /\ username = Unbound
    /\ location = Unbound
    /\ result = None
    /\ exc = NoExc
    /\ out = <<>>
    /\ escaped = FALSE

\* main, line 72: the call of fetch_data_from_api inside the try.
MainCall ==
    /\ pc = "main"
    /\ calls' = calls + 1
    /\ pc' = "line51"
    /\ UNCHANGED <<response, data, user_data, username, location, result, exc,
                   out, escaped>>

\* line 51: response = requests.get(url), the answer drawn from `outcomes`.
Get(outcomes) ==
    /\ pc = "line51"
    /\ \E o \in outcomes :
         IF o.ok
           THEN response' = o.val /\ exc' = exc /\ pc' = "line54"
           ELSE response' = response /\ exc' = o.exc /\ pc' = "except"
    /\ UNCHANGED <<calls, data, user_data, username, location, result, out,
                   escaped>>

AllOutcomes == TransportOutcomes(MaxRecords)
FairOutcomes == TransportOutcomes(MaxFairRecords)

RequestsGet == Get(AllOutcomes)

RequestsGetFair == Get(FairOutcomes)

\* line 54: response.raise_for_status()
RaiseForStatus ==
    /\ pc = "line54"
    /\ LET r == raise_for_status(response) IN
         IF r.ok THEN exc' = exc /\ pc' = "line57"
                 ELSE exc' = r.exc /\ pc' = "except"
    /\ UNCHANGED <<calls, response, data, user_data, username, location,
                   result, out, escaped>>

\* line 57: data = response.json()
ResponseJson ==
    /\ pc = "line57"
    /\ \E e \in JSONDecodeErrors :
         IF response.body.wellformed
           THEN data' = response.body.value /\ exc' = exc /\ pc' = "line60"
           ELSE data' = data /\ exc' = e /\ pc' = "except"
    /\ UNCHANGED <<calls, response, user_data, username, location, result,
                   out, escaped>>

\* lines 60 and 67: the envelope test and the raise of its else branch.
Validate ==
    /\ pc = "line60"
    /\ LET v == EnvelopeValid(data) IN
         IF ~v.ok THEN exc' = v.exc /\ pc' = "except"
         ELSE IF v.val THEN exc' = exc /\ pc' = "line62"
         ELSE exc' = Exc("Exception", InvalidData) /\ pc' = "except"
    /\ UNCHANGED <<calls, response, data, user_data, username, location,
                   result, out, escaped>>

\* line 62: user_data = data["data"]["data"][0]
Line62 ==
    /\ pc = "line62"
    /\ LET r == FirstRecord(data) IN
         IF r.ok THEN user_data' = r.val /\ exc' = exc /\ pc' = "line63"
                 ELSE user_data' = user_data /\ exc' = r.exc /\ pc' = "except"
    /\ UNCHANGED <<calls, response, data, username, location, result, out,
                   escaped>>

\* line 63: username = user_data["login"]["username"]
Line63 ==
    /\ pc = "line63"
    /\ LET r == ReadUsername(user_data) IN
         IF r.ok THEN username' = r.val /\ exc' = exc /\ pc' = "line64"
                 ELSE username' = username /\ exc' = r.exc /\ pc' = "except"
    /\ UNCHANGED <<calls, response, data, user_data, location, result, out,
                   escaped>>

\* line 64: location = user_data["location"]["city"]
Line64 ==
    /\ pc = "line64"
    /\ LET r == ReadCity(user_data) IN
         IF r.ok THEN location' = r.val /\ exc' = exc /\ pc' = "line65"
                 ELSE location' = location /\ exc' = r.exc /\ pc' = "except"
    /\ UNCHANGED <<calls, response, data, user_data, username, result, out,
                   escaped>>

\* line 65: return username, location
Return ==
    /\ pc = "line65"
    /\ result' = <<username, location>>
    /\ pc' = "line73"
    /\ UNCHANGED <<calls, response, data, user_data, username, location, exc,
                   out, escaped>>

\* The f-string of line 73, as the pieces it concatenates.
SuccessLine(u, c) == <<"Username: ", PyStr(u), ", City: ", PyStr(c)>>

\* main, line 73: print(f"Username: {username}, City: {city}")
MainPrint ==
    /\ pc = "line73"
    /\ out' = Append(out, SuccessLine(result[1], result[2]))
    /\ pc' = "done"
    /\ UNCHANGED <<calls, response, data, user_data, username, location,
                   result, exc, escaped>>

\* main, lines 74-82: the first matching except clause prints its line; an
\* exception no clause matches leaves main.
MainExcept ==
    /\ pc = "except"
    /\ LET h == Handler(exc) IN
         IF h = "uncaught"
           THEN out' = out /\ escaped' = TRUE /\ pc' = "crashed"
           ELSE out' = Append(out, <<h, exc.msg>>) /\ escaped' = escaped
                  /\ pc' = "done"
    /\ UNCHANGED <<calls, response, data, user_data, username, location,
                   result, exc>>

Next ==
    \/ MainCall
    \/ RequestsGet
    \/ RaiseForStatus
    \/ ResponseJson
    \/ Validate
    \/ Line62
    \/ Line63
    \/ Line64
    \/ Return
    \/ MainPrint
    \/ MainExcept

Spec == Init /\ [][Next]_vars

NextFair ==
    \/ MainCall
    \/ RequestsGetFair
    \/ RaiseForStatus
    \/ ResponseJson
    \/ Validate
    \/ Line62
    \/ Line63
    \/ Line64
    \/ Return
    \/ MainPrint
    \/ MainExcept

\* main is straight-line synchronous code: once requests.get has its
\* outcome every enabled step is taken.
FairSpec == Init /\ [][NextFair]_vars /\ WF_vars(NextFair)

-----------------------------------------------------------------------------
(* Vocabulary of the properties: the response as the server sent it,      *)
(* described by its shape and not by the operators the code model uses.   *)

Done == pc = "done"
GotResponse == response # Unbound
Is2xx == GotResponse /\ response.status_code >= 200 /\ response.status_code <= 299
Is4xx5xx == GotResponse /\ response.status_code >= 400 /\ response.status_code <= 599
Sent == response.body.value
IsDict(v) == v.t = "dict"
Has(v, k) == IsDict(v) /\ k \in DOMAIN v.items

\* The body is JSON and its top level is a mapping.
JsonEnvelope == GotResponse /\ response.body.wellformed /\ IsDict(Sent)
SentSuccess == Sent.items["success"]
SuccessPresent == JsonEnvelope /\ Has(Sent, "success")
SuccessIsTruthy ==
    /\ SuccessPresent
    /\ \/ SentSuccess.t = "bool" /\ SentSuccess.b
       \/ SentSuccess.t = "num" /\ SentSuccess.n # 0
SuccessIsFalsy == SuccessPresent /\ ~SuccessIsTruthy
\* ... with a `data` mapping holding a `data` list.
HasRecordList ==
    /\ SuccessIsTruthy
    /\ Has(Sent, "data")
    /\ Has(Sent.items["data"], "data")
    /\ Sent.items["data"].items["data"].t = "list"
SentRecords == Sent.items["data"].items["data"].elems
HasFirstRecord == HasRecordList /\ Len(SentRecords) >= 1 /\ IsDict(SentRecords[1])
RecordComplete(r) ==
    /\ Has(r, "login") /\ Has(r.items["login"], "username")
    /\ Has(r, "location") /\ Has(r.items["location"], "city")
SentUsername == SentRecords[1].items["login"].items["username"]
SentCity == SentRecords[1].items["location"].items["city"]

\* The first key the lookups login, username, location, city do not find.
FirstMissing(r) ==
    IF ~Has(r, "login") THEN "'login'"
    ELSE IF ~Has(r.items["login"], "username") THEN "'username'"
    ELSE IF ~Has(r, "location") THEN "'location'"
    ELSE "'city'"

NetworkPrefix == "Network error occurred: "
ParsingPrefix == "Error parsing API response: "
UnexpectedPrefix == "An unexpected error occurred: "
Printed(prefix, detail) == out = << <<prefix, detail>> >>
PrintedPrefix(prefix) == Len(out) = 1 /\ out[1][1] = prefix
NothingRead == user_data = Unbound /\ username = Unbound /\ location = Unbound

-----------------------------------------------------------------------------
\* C1: for a 2xx response whose envelope is well formed and whose first
\* record holds login.username and location.city, fetch_data_from_api returns
\* exactly (username, city) of the record at index 0, whatever the later
\* records hold, and main prints "Username: <username>, City: <city>".
C1_FirstRecordReturned ==
    (Done /\ Is2xx /\ HasFirstRecord /\ RecordComplete(SentRecords[1])) =>
        /\ result = <<SentUsername, SentCity>>
        /\ out = << <<"Username: ", SentUsername.s, ", City: ", SentCity.s>> >>
        /\ exc = NoExc

\* C1 witness: a run that ended with at least two records, the second one
\* differing from the first in both fields.
C1_Witness ==
    /\ Done /\ Is2xx /\ HasFirstRecord /\ RecordComplete(SentRecords[1])
    /\ Len(SentRecords) >= 2 /\ RecordComplete(SentRecords[2])
    /\ SentRecords[2].items["login"].items["username"] # SentUsername
    /\ SentRecords[2].items["location"].items["city"] # SentCity
    /\ result # None

EmptyRecordList == Is2xx /\ HasRecordList /\ Len(SentRecords) = 0

\* C2 as stated: an empty data.data list is reported by main as
\* "Error parsing API response: ...", the MissingFieldError kind.
C2_EmptyListIsMissingField ==
    (Done /\ EmptyRecordList) => PrintedPrefix(ParsingPrefix)

\* C2 as amended: an empty data.data list makes line 62 raise IndexError,
\* which is no KeyError; main reports it through the catch-all as
\* "An unexpected error occurred: list index out of range".
C2_EmptyListIsUnexpected ==
    (Done /\ EmptyRecordList) =>
        /\ exc = Exc("IndexError", "list index out of range")
        /\ Printed(UnexpectedPrefix, "list index out of range")
        /\ result = None

C2_Witness == Done /\ EmptyRecordList /\ Len(out) = 1

\* C3: a 2xx JSON body without any `success` key fails with the error
\* "API request failed or returned invalid data", reported by main as
\* "An unexpected error occurred: ...", like a falsy `success`.
C3_MissingSuccessIsLogicError ==
    (Done /\ Is2xx /\ JsonEnvelope /\ ~Has(Sent, "success")) =>
        /\ exc = Exc("Exception", InvalidData)
        /\ Printed(UnexpectedPrefix, InvalidData)

\* C4 as stated: a connection failure, a timeout or any status outside
\* 200-299 ends in "Network error occurred: ..." with the body never parsed.
C4_Non2xxIsNetworkError ==
    (Done /\ ~Is2xx) => (PrintedPrefix(NetworkPrefix) /\ data = Unbound)

\* C4 as amended: a connection failure, a timeout or a status in 400-599
\* fails with a RequestException before the body is parsed, whatever the
\* body holds, and main prints "Network error occurred: ...".
C4_TransportOr4xx5xxIsNetworkError ==
    (Done /\ (~GotResponse \/ Is4xx5xx)) =>
        /\ IsInstance(exc, "RequestException")
        /\ PrintedPrefix(NetworkPrefix)
        /\ out[1][2] = exc.msg
        /\ data = Unbound
        /\ NothingRead
        /\ result = None

\* C4 witness: a 4xx/5xx answer whose body is a complete, valid envelope.
C4_Witness ==
    /\ Done /\ Is4xx5xx
    /\ HasFirstRecord /\ RecordComplete(SentRecords[1])
    /\ exc.cls = "HTTPError"

UnparseableBody == Is2xx /\ ~response.body.wellformed

\* C5 as stated: a 2xx body that is not JSON is reported as
\* "An unexpected error occurred: ..." and by no earlier handler.
C5_ParseFailureIsUnexpected ==
    (Done /\ UnparseableBody) => PrintedPrefix(UnexpectedPrefix)

\* C5 as amended: a 2xx body that is not JSON is never reported as
\* "Error parsing API response: ..."; it is reported as "Network error
\* occurred: ..." when json() raises requests' JSONDecodeError (a
\* RequestException) and as "An unexpected error occurred: ..." when it
\* raises the plain json.JSONDecodeError.
C5_ParseFailureIsNeverMissingField ==
    (Done /\ UnparseableBody) =>
        /\ exc \in JSONDecodeErrors
        /\ Len(out) = 1
        /\ out[1][1] # ParsingPrefix
        /\ (exc.cls = "requests.JSONDecodeError" => Printed(NetworkPrefix, exc.msg))
        /\ (exc.cls = "json.JSONDecodeError" => Printed(UnexpectedPrefix, exc.msg))
        /\ data = Unbound /\ result = None

C5_Witness == Done /\ UnparseableBody /\ PrintedPrefix(NetworkPrefix)

\* C6: a 2xx JSON body whose `success` is present and falsy fails with
\* "API request failed or returned invalid data" whatever else it holds;
\* no record is read and no pair is returned.
C6_FalsySuccessIsLogicError ==
    (Done /\ Is2xx /\ SuccessIsFalsy) =>
        /\ exc = Exc("Exception", InvalidData)
        /\ Printed(UnexpectedPrefix, InvalidData)
        /\ NothingRead
        /\ result = None

\* C6 witness: `success` falsy in an otherwise complete envelope.
C6_Witness ==
    /\ Done /\ Is2xx /\ SuccessIsFalsy
    /\ Has(Sent, "data") /\ Has(Sent.items["data"], "data")
    /\ Len(SentRecords) >= 1 /\ RecordComplete(SentRecords[1])

MissingWrapperKey ==
    /\ Is2xx /\ SuccessIsTruthy
    /\ \/ ~Has(Sent, "data")
       \/ IsDict(Sent.items["data"]) /\ ~Has(Sent.items["data"], "data")

\* C7: a 2xx JSON body with truthy `success` but without the top-level
\* `data` key, or with a `data` mapping without nested `data`, fails with
\* "API request failed or returned invalid data", which main prints after
\* "An unexpected error occurred: ".
C7_MissingWrapperIsLogicError ==
    (Done /\ MissingWrapperKey) =>
        /\ exc = Exc("Exception", InvalidData)
        /\ Printed(UnexpectedPrefix, InvalidData)
        /\ result = None

\* C7 witness: `data` is a mapping that has no nested `data`.
C7_Witness == Done /\ MissingWrapperKey /\ Has(Sent, "data")

IncompleteFirstRecord ==
    Is2xx /\ HasFirstRecord /\ ~RecordComplete(SentRecords[1])

\* C8: when the first record lacks login, login.username, location or
\* location.city, the failure is a KeyError naming the first missing key in
\* the order login, username, location, city; main prints it after
\* "Error parsing API response: "; later records are no fallback.
C8_MissingFieldNamesFirstKey ==
    (Done /\ IncompleteFirstRecord) =>
        /\ exc = Exc("KeyError", FirstMissing(SentRecords[1]))
        /\ Printed(ParsingPrefix, FirstMissing(SentRecords[1]))
        /\ result = None

\* C8 witness: the first record lacks username and location, the second
\* record is complete.
C8_Witness ==
    /\ Done /\ IncompleteFirstRecord
    /\ Has(SentRecords[1], "login") /\ ~Has(SentRecords[1], "location")
    /\ FirstMissing(SentRecords[1]) = "'username'"
    /\ Len(SentRecords) >= 2 /\ RecordComplete(SentRecords[2])

\* C9: fetch_data_from_api either returns a pair whose two fields were both
\* read from the first record, or fails and returns nothing; a pair with
\* one field populated never reaches main and is never printed.
C9_NoPartialResult ==
    /\ result # None =>
          /\ HasFirstRecord /\ RecordComplete(SentRecords[1])
          /\ result = <<SentUsername, SentCity>>
          /\ username = SentUsername /\ location = SentCity
          /\ exc = NoExc
    /\ Done => ((result # None) # (exc # NoExc))
    /\ \A i \in 1..Len(out) : out[i][1] = "Username: " => result # None

\* C9 witness: the username was read, the city lookup failed.
C9_Witness ==
    /\ Done /\ username # Unbound /\ location = Unbound
    /\ exc.cls = "KeyError" /\ result = None
    /\ PrintedPrefix(ParsingPrefix)

OutcomePrefixes == {"Username: ", NetworkPrefix, ParsingPrefix, UnexpectedPrefix}

\* C10: in every run of main fetch_data_from_api is called exactly once,
\* exactly one line is printed (the success line or one of the three
\* failure messages), no failure leaves main, and main terminates.
C10_OneCallOneLine ==
    /\ [](calls <= 1 /\ Len(out) <= 1 /\ ~escaped /\ pc # "crashed")
    /\ <>[](Done /\ calls = 1 /\ Len(out) = 1 /\ out[1][1] \in OutcomePrefixes)

\* C10 witness: a failure that is neither a network, a missing-key nor the
\* invalid-data error, caught by the catch-all.
C10_Witness ==
    /\ Done /\ calls = 1 /\ exc.cls = "TypeError"
    /\ PrintedPrefix(UnexpectedPrefix)

====
